---- MODULE Spec2Model ----
(***************************************************************************)
(* Model of baseline_generate.py: main() reads a table of sentences, sends *)
(* every sentence through two remote chat-completion calls (specialist,    *)
(* then reviewer) and writes a three-column table.                         *)
(*                                                                         *)
(* Python strings are sequences of one-character strings.  A table cell is *)
(* a record [kind, val]: kind "str" holds the characters in val, kind      *)
(* "nan" is the missing cell pandas reads from an empty field.             *)
(***************************************************************************)
EXTENDS Integers, Sequences, FiniteSets, TLC

VARIABLES input, api_key, df, pc, idx, text, corrected_1, corrected_2,
          ids, err_sentences, cor_sentences, calls, outcome_1, outcome_2,
          stdout, out_file, exception

vars == <<input, api_key, df, pc, idx, text, corrected_1, corrected_2,
          ids, err_sentences, cor_sentences, calls, outcome_1, outcome_2,
          stdout, out_file, exception>>

----------------------------------------------------------------------------
(* Bounds *)

MaxRows == 2

----------------------------------------------------------------------------
(* Values *)

Whitespace == {" ", "\n"}

ErrSnippetLen == 50

PyStr(s) == [kind |-> "str", val |-> s]

NaN == [kind |-> "nan", val |-> <<>>]

ErrCells == {PyStr(<<" ", "b">>), NaN}

IdCells == {<<"x">>, <<"y">>}

ApiKeys == {"unset", "empty", "set"}

(* Response contents: empty, whitespace only, plain, padded on both sides *)
Contents == {<<>>, <<" ", "\n">>, <<"a">>, <<"\n", "a", " ">>}

NotIssued == [kind |-> "not_issued", content |-> <<>>]

Completion(c) == [kind |-> "ok", content |-> c]

Failures == {[kind |-> k, content |-> <<>>] : k \in {"raise", "no_choices", "null_content"}}

Outcomes == {Completion(c) : c \in Contents} \cup Failures

ColumnValues(cols, name, n, cells) ==
    IF name \in cols THEN [1..n -> cells] ELSE {<<>>}

ReadCsv ==
    UNION {{[columns |-> cols, n |-> n, err |-> e, id |-> i] :
                e \in ColumnValues(cols, "err_sentence", n, ErrCells),
                i \in ColumnValues(cols, "id", n, IdCells)} :
            cols \in SUBSET {"id", "err_sentence"}, n \in 0..MaxRows}

NoFile == [exists |-> FALSE, rows |-> <<>>]

Line(kind, snippet, n) == [kind |-> kind, snippet |-> snippet, n |-> n]

----------------------------------------------------------------------------
(* Pure functions *)

DigitChar(d) == <<"0", "1", "2", "3", "4", "5", "6", "7", "8", "9">>[d + 1]

RECURSIVE Digits(_)
Digits(k) == IF k < 10 THEN <<DigitChar(k)>> ELSE Digits(k \div 10) \o <<DigitChar(k % 10)>>

TempId(i) == <<"t", "e", "m", "p", "_", "i", "d", "_">> \o Digits(i)

TempIdColumnOneBased(n) == [k \in 1..n |-> TempId(k)]

TempIdColumn(n) == [k \in 1..n |-> TempId(k - 1)]

Str(cell) == IF cell.kind = "str" THEN cell.val ELSE <<"n", "a", "n">>

RECURSIVE LStrip(_)
LStrip(s) == IF s # <<>> /\ Head(s) \in Whitespace THEN LStrip(Tail(s)) ELSE s

RECURSIVE RStrip(_)
RStrip(s) ==
    IF s # <<>> /\ s[Len(s)] \in Whitespace THEN RStrip(SubSeq(s, 1, Len(s) - 1)) ELSE s

StripLeftOnly(s) == LStrip(s)

Strip(s) == RStrip(LStrip(s))

specialist_prompt == [pre |-> <<"S", ":">>, post |-> <<>>]

reviewer_prompt == [pre |-> <<"R", ":">>, post |-> <<".">>]

Format(template, t) == template.pre \o t \o template.post

Snippet(t) == SubSeq(t, 1, IF Len(t) < ErrSnippetLen THEN Len(t) ELSE ErrSnippetLen)

FallbackToText(c1, t) == t

FallbackToCorrected(c1, t) == c1

Fallback(c1, t) == IF c1 # <<>> THEN c1 ELSE t

Raises(o) == o \in Failures

----------------------------------------------------------------------------
(* State machine *)

Init ==
    /\ input \in ReadCsv
    /\ api_key \in ApiKeys
    /\ df = input
    /\ pc = "loaded"
    /\ idx = 0
    /\ text = <<>>
    /\ corrected_1 = <<>>
    /\ corrected_2 = <<>>
    /\ ids = <<>>
    /\ err_sentences = <<>>
    /\ cor_sentences = <<>>
    /\ calls = <<>>
    /\ outcome_1 = NotIssued
    /\ outcome_2 = NotIssued
    /\ stdout = <<>>
    /\ out_file = NoFile
    /\ exception = "none"

(* lines 27-28 *)
CheckErrColumn ==
    /\ pc = "loaded"
    /\ IF "err_sentence" \notin df.columns
       THEN /\ pc' = "aborted"
            /\ exception' = "ValueError: Input CSV must contain 'err_sentence' column"
       ELSE /\ pc' = "check_id"
            /\ exception' = exception
    /\ UNCHANGED <<input, api_key, df, idx, text, corrected_1, corrected_2, ids,
                   err_sentences, cor_sentences, calls, outcome_1, outcome_2,
                   stdout, out_file>>

(* lines 30-32 *)
CheckIdColumn ==
    /\ pc = "check_id"
    /\ IF "id" \notin df.columns
       THEN /\ stdout' = Append(stdout, Line("warning", <<>>, 0))
            /\ df' = [df EXCEPT !.columns = @ \cup {"id"}, !.id = TempIdColumn(df.n)]
       ELSE /\ stdout' = stdout
            /\ df' = df
    /\ pc' = "check_key"
    /\ UNCHANGED <<input, api_key, idx, text, corrected_1, corrected_2, ids,
                   err_sentences, cor_sentences, calls, outcome_1, outcome_2,
                   out_file, exception>>

SetupClientNoKeyCheck ==
    /\ pc = "check_key"
    /\ pc' = "loop"
    /\ stdout' = stdout \o <<Line("model", <<>>, 0), Line("output", <<>>, 0)>>
    /\ err_sentences' = <<>>
    /\ cor_sentences' = <<>>
    /\ ids' = <<>>
    /\ UNCHANGED <<input, api_key, df, idx, text, corrected_1, corrected_2,
                   calls, outcome_1, outcome_2, out_file, exception>>

(* lines 35-47 *)
SetupClient ==
    /\ pc = "check_key"
    /\ IF api_key \in {"unset", "empty"}
       THEN /\ pc' = "aborted"
            /\ exception' = "ValueError: UPSTAGE_API_KEY not found in environment variables"
            /\ stdout' = stdout
       ELSE /\ pc' = "loop"
            /\ exception' = exception
            /\ stdout' = stdout \o <<Line("model", <<>>, 0), Line("output", <<>>, 0)>>
    /\ err_sentences' = <<>>
    /\ cor_sentences' = <<>>
    /\ ids' = <<>>
    /\ UNCHANGED <<input, api_key, df, idx, text, corrected_1, corrected_2,
                   calls, outcome_1, outcome_2, out_file>>

RowBeginKeepsCorrected ==
    /\ pc = "loop"
    /\ idx < df.n
    /\ idx' = idx + 1
    /\ text' = Str(df.err[idx + 1])
    /\ ids' = Append(ids, df.id[idx + 1])
    /\ err_sentences' = Append(err_sentences, text')
    /\ outcome_1' = NotIssued
    /\ outcome_2' = NotIssued
    /\ pc' = "call1"
    /\ UNCHANGED <<input, api_key, df, corrected_1, corrected_2, cor_sentences,
                   calls, stdout, out_file, exception>>

(* lines 50-57 *)
RowBegin ==
    /\ pc = "loop"
    /\ idx < df.n
    /\ idx' = idx + 1
    /\ text' = Str(df.err[idx + 1])
    /\ ids' = Append(ids, df.id[idx + 1])
    /\ err_sentences' = Append(err_sentences, text')
    /\ corrected_1' = <<>>
    /\ corrected_2' = <<>>
    /\ outcome_1' = NotIssued
    /\ outcome_2' = NotIssued
    /\ pc' = "call1"
    /\ UNCHANGED <<input, api_key, df, cor_sentences, calls, stdout, out_file, exception>>

Request(stage, prompt, ok) == [row |-> idx, stage |-> stage, prompt |-> prompt, ok |-> ok]

ExceptHandlerSkipsRow ==
    /\ stdout' = Append(stdout, Line("error", Snippet(text), 0))
    /\ cor_sentences' = cor_sentences
    /\ pc' = "loop"

ExceptHandlerReraises ==
    /\ stdout' = stdout
    /\ cor_sentences' = cor_sentences
    /\ pc' = "aborted"

(* lines 87-89 *)
ExceptHandler ==
    /\ stdout' = Append(stdout, Line("error", Snippet(text), 0))
    /\ cor_sentences' = Append(cor_sentences, Fallback(corrected_1, text))
    /\ pc' = "loop"

(* lines 61-70, the call returns a completion with a content string *)
SpecialistReturns ==
    /\ pc = "call1"
    /\ \E o \in Outcomes :
          /\ ~Raises(o)
          /\ calls' = Append(calls, Request(1, Format(specialist_prompt, text), TRUE))
          /\ outcome_1' = o
          /\ corrected_1' = Strip(o.content)
    /\ pc' = "call2"
    /\ UNCHANGED <<input, api_key, df, idx, text, corrected_2, ids, err_sentences,
                   cor_sentences, outcome_2, stdout, out_file, exception>>

SpecialistRaisesRetries ==
    /\ pc = "call1"
    /\ \E o \in Outcomes :
          /\ Raises(o)
          /\ calls' = Append(calls, Request(1, Format(specialist_prompt, text), FALSE))
          /\ outcome_1' = o
    /\ IF Len(calls) < 2 * idx
       THEN /\ stdout' = stdout
            /\ cor_sentences' = cor_sentences
            /\ pc' = "call1"
       ELSE ExceptHandler
    /\ UNCHANGED <<input, api_key, df, idx, text, corrected_1, corrected_2, ids,
                   err_sentences, outcome_2, out_file, exception>>

(* lines 61-70 and 87-89, the call or the reading of its response raises *)
SpecialistRaises ==
    /\ pc = "call1"
    /\ \E o \in Outcomes :
          /\ Raises(o)
          /\ calls' = Append(calls, Request(1, Format(specialist_prompt, text), FALSE))
          /\ outcome_1' = o
    /\ ExceptHandler
    /\ UNCHANGED <<input, api_key, df, idx, text, corrected_1, corrected_2, ids,
                   err_sentences, outcome_2, out_file, exception>>

(* lines 74-85 *)
ReviewerReturns ==
    /\ pc = "call2"
    /\ \E o \in Outcomes :
          /\ ~Raises(o)
          /\ calls' = Append(calls, Request(2, Format(reviewer_prompt, corrected_1), TRUE))
          /\ outcome_2' = o
          /\ corrected_2' = Strip(o.content)
    /\ cor_sentences' = Append(cor_sentences, corrected_2')
    /\ pc' = "loop"
    /\ UNCHANGED <<input, api_key, df, idx, text, corrected_1, ids, err_sentences,
                   outcome_1, stdout, out_file, exception>>

(* lines 74-83 and 87-89 *)
ReviewerRaises ==
    /\ pc = "call2"
    /\ \E o \in Outcomes :
          /\ Raises(o)
          /\ calls' = Append(calls, Request(2, Format(reviewer_prompt, corrected_1), FALSE))
          /\ outcome_2' = o
    /\ ExceptHandler
    /\ UNCHANGED <<input, api_key, df, idx, text, corrected_1, corrected_2, ids,
                   err_sentences, outcome_1, out_file, exception>>

OutRow(k) == [id |-> ids[k], err_sentence |-> err_sentences[k], cor_sentence |-> cor_sentences[k]]

(* lines 93-102; pandas rejects columns of unequal length *)
WriteOutput ==
    /\ pc = "loop"
    /\ idx = df.n
    /\ IF Len(ids) = Len(err_sentences) /\ Len(ids) = Len(cor_sentences)
       THEN /\ out_file' = [exists |-> TRUE, rows |-> [k \in 1..Len(ids) |-> OutRow(k)]]
            /\ stdout' = Append(stdout, Line("wrote", <<>>, Len(ids)))
            /\ pc' = "done"
            /\ exception' = exception
       ELSE /\ out_file' = out_file
            /\ stdout' = stdout
            /\ pc' = "aborted"
            /\ exception' = "ValueError: All arrays must be of the same length"
    /\ UNCHANGED <<input, api_key, df, idx, text, corrected_1, corrected_2, ids,
                   err_sentences, cor_sentences, calls, outcome_1, outcome_2>>

Next ==
    \/ CheckErrColumn
    \/ CheckIdColumn
    \/ SetupClient
    \/ RowBegin
    \/ SpecialistReturns
    \/ SpecialistRaises
    \/ ReviewerReturns
    \/ ReviewerRaises
    \/ WriteOutput

Spec == Init /\ [][Next]_vars

FairSpec == Spec /\ WF_vars(Next)

----------------------------------------------------------------------------
(* Vocabulary of the properties *)

RowDone == pc \in {"loop", "done"} /\ idx >= 1 /\ Len(cor_sentences) = idx

KeyMissing == api_key \in {"unset", "empty"}

SubSeqs(c) == {SubSeq(c, i, j) : i \in 1..(Len(c) + 1), j \in 0..Len(c)}

IsStripOf(c, s) ==
    \E i \in 0..Len(c), j \in 0..Len(c) :
        /\ i + j <= Len(c)
        /\ s = SubSeq(c, i + 1, Len(c) - j)
        /\ \A k \in 1..i : c[k] \in Whitespace
        /\ \A k \in (Len(c) - j + 1)..Len(c) : c[k] \in Whitespace
        /\ s = <<>> \/ (s[1] \notin Whitespace /\ s[Len(s)] \notin Whitespace)

ExpectedTempId(i) ==
    <<"t", "e", "m", "p", "_", "i", "d", "_">> \o
    (CASE i = 0 -> <<"0">> [] i = 1 -> <<"1">> [] i = 2 -> <<"2">> [] i = 3 -> <<"3">>
       [] i = 4 -> <<"4">> [] i = 5 -> <<"5">>)

ExpectedId(k) == IF "id" \in input.columns THEN input.id[k] ELSE ExpectedTempId(k - 1)

RowResult(cell, o1, o2) ==
    IF o1.kind # "ok" THEN Str(cell)
    ELSE IF o2.kind = "ok" THEN Strip(o2.content)
    ELSE IF Strip(o1.content) # <<>> THEN Strip(o1.content)
    ELSE Str(cell)

CallsOf(r, stage) == {k \in 1..Len(calls) : calls[k].row = r /\ calls[k].stage = stage}

FailedCalls == {k \in 1..Len(calls) : ~calls[k].ok}

ValidationErrors ==
    {"ValueError: Input CSV must contain 'err_sentence' column",
     "ValueError: UPSTAGE_API_KEY not found in environment variables"}

----------------------------------------------------------------------------
(* C1: at the write step and in the written file there is exactly one     *)
(* element of ids, err_sentences and cor_sentences per input row, and      *)
(* element i comes from input row i; while a row is in progress the three  *)
(* accumulators hold one element per row begun (cor_sentences one less).   *)
C1_OneOutputRowPerInputRow ==
    /\ pc \in {"call1", "call2"} =>
          /\ Len(ids) = idx /\ Len(err_sentences) = idx
          /\ Len(cor_sentences) = idx - 1
    /\ pc \in {"loop", "done"} =>
          Len(ids) = idx /\ Len(err_sentences) = idx /\ Len(cor_sentences) = idx
    /\ \A k \in 1..Len(ids) :
          ids[k] = df.id[k] /\ err_sentences[k] = Str(input.err[k])
    /\ pc = "done" =>
          /\ out_file.exists
          /\ Len(out_file.rows) = input.n
          /\ \A k \in 1..input.n :
                /\ out_file.rows[k].id = df.id[k]
                /\ out_file.rows[k].err_sentence = Str(input.err[k])
                /\ out_file.rows[k].cor_sentence = cor_sentences[k]
    /\ pc = "aborted" => exception \in ValidationErrors

C1_Witness ==
    /\ pc = "done"
    /\ input.n >= 2
    /\ Len(out_file.rows) = input.n
    /\ FailedCalls # {}
    /\ \E k \in 1..Len(calls) : calls[k].stage = 2 /\ calls[k].ok

(* C2 as stated: whenever the specialist call succeeded and the reviewer   *)
(* call failed, cor_sentence is the stripped content of the first          *)
(* response, also when that is empty.                                      *)
C2_FirstPassFallbackAlways ==
    (RowDone /\ outcome_1.kind = "ok" /\ Raises(outcome_2)) =>
        IsStripOf(outcome_1.content, cor_sentences[idx])

(* C2 amended: specialist succeeded, reviewer failed: cor_sentence is the  *)
(* stripped first response when that is non-empty, and the row's sentence  *)
(* text when the stripped first response is empty.                         *)
C2_FirstPassFallback ==
    (RowDone /\ outcome_1.kind = "ok" /\ Raises(outcome_2)) =>
        \/ /\ cor_sentences[idx] # <<>>
           /\ IsStripOf(outcome_1.content, cor_sentences[idx])
        \/ /\ IsStripOf(outcome_1.content, <<>>)
           /\ cor_sentences[idx] = err_sentences[idx]

C2_Witness ==
    /\ RowDone /\ outcome_1.kind = "ok" /\ Raises(outcome_2)
    /\ cor_sentences[idx] # <<>>
    /\ cor_sentences[idx] # err_sentences[idx]
    /\ cor_sentences[idx] # outcome_1.content

(* C3: when the specialist call fails, cor_sentence equals the row's       *)
(* err_sentence in the output and no reviewer call is issued for the row.  *)
C3_OriginalOnFirstFailure ==
    (RowDone /\ Raises(outcome_1)) =>
        /\ cor_sentences[idx] = err_sentences[idx]
        /\ outcome_2 = NotIssued
        /\ CallsOf(idx, 2) = {}
        /\ pc = "done" => out_file.rows[idx].cor_sentence = out_file.rows[idx].err_sentence

C3_Witness ==
    /\ RowDone /\ Raises(outcome_1)
    /\ idx >= 2
    /\ cor_sentences[idx - 1] # err_sentences[idx - 1]
    /\ cor_sentences[idx] = err_sentences[idx]

(* C4: when both calls succeed, cor_sentence is the stripped content of    *)
(* the reviewer's response.                                                *)
C4_ReviewerResultOnSuccess ==
    (RowDone /\ outcome_1.kind = "ok" /\ outcome_2.kind = "ok") =>
        /\ IsStripOf(outcome_2.content, cor_sentences[idx])
        /\ pc = "done" => IsStripOf(outcome_2.content, out_file.rows[idx].cor_sentence)

C4_Witness ==
    /\ RowDone /\ outcome_1.kind = "ok" /\ outcome_2.kind = "ok"
    /\ cor_sentences[idx] # outcome_2.content
    /\ cor_sentences[idx] # <<>>
    /\ ~IsStripOf(outcome_1.content, cor_sentences[idx])
    /\ cor_sentences[idx] # err_sentences[idx]

(* C5: every step leaves the output rows already produced untouched, and   *)
(* the row it completes is a function of that row's input cell and that    *)
(* row's two responses only.                                               *)
C5_RowIsolation ==
    [][/\ \A k \in 1..Len(cor_sentences) :
             Len(cor_sentences') >= k /\ cor_sentences'[k] = cor_sentences[k]
       /\ \A k \in 1..Len(ids) : Len(ids') >= k /\ ids'[k] = ids[k]
       /\ \A k \in 1..Len(err_sentences) :
             Len(err_sentences') >= k /\ err_sentences'[k] = err_sentences[k]
       /\ Len(cor_sentences') > Len(cor_sentences) =>
             /\ Len(cor_sentences') = idx'
             /\ cor_sentences'[idx'] = RowResult(input.err[idx'], outcome_1', outcome_2')
             /\ err_sentences'[idx'] = Str(input.err[idx'])
             /\ ids'[idx'] = ExpectedId(idx')
       /\ pc' = "done" =>
             \A k \in 1..Len(cor_sentences) :
                 out_file'.rows[k] = [id |-> ids[k], err_sentence |-> err_sentences[k],
                                      cor_sentence |-> cor_sentences[k]]]_vars

C5_Witness ==
    /\ RowDone /\ Raises(outcome_1)
    /\ idx >= 2
    /\ \E k \in CallsOf(idx - 1, 2) : ~calls[k].ok
    /\ cor_sentences[idx - 1] # err_sentences[idx - 1]
    /\ cor_sentences[idx] = err_sentences[idx]

(* C6: once validation has passed, the run eventually writes one output    *)
(* row per input row and reports that number, whatever calls fail.         *)
C6_ContinueOnError ==
    (pc = "loop") ~>
        (/\ pc = "done"
         /\ out_file.exists
         /\ Len(out_file.rows) = input.n
         /\ stdout[Len(stdout)] = Line("wrote", <<>>, input.n))

C6_Witness ==
    /\ pc = "done"
    /\ input.n >= 2
    /\ \A r \in 1..input.n : \E k \in 1..Len(calls) : calls[k].row = r /\ ~calls[k].ok
    /\ stdout[Len(stdout)] = Line("wrote", <<>>, input.n)

(* C7: with the err_sentence column or the credential missing, no remote   *)
(* call is issued, no file is written, the loop is never entered, and the  *)
(* run, once stopped, has stopped with the validation error.               *)
C7_ValidationAbortsFirst ==
    ("err_sentence" \notin input.columns \/ KeyMissing) =>
        /\ calls = <<>>
        /\ ~out_file.exists
        /\ pc \in {"loaded", "check_id", "check_key", "aborted"}
        /\ pc = "aborted" => exception \in ValidationErrors
        /\ (pc = "check_id" \/ pc = "check_key") => "err_sentence" \in input.columns

C7_Witness ==
    /\ pc = "aborted"
    /\ api_key = "empty"
    /\ "err_sentence" \in input.columns
    /\ input.n >= 1
    /\ calls = <<>>

(* C8: the id of output row i is the input id when the table has an id     *)
(* column, and temp_id_<i> with i the zero-based row position otherwise.   *)
C8_IdPassThroughOrTemp ==
    /\ \A k \in 1..Len(ids) : ids[k] = ExpectedId(k)
    /\ pc = "done" => \A k \in 1..input.n : out_file.rows[k].id = ExpectedId(k)

C8_Witness ==
    /\ pc = "done"
    /\ "id" \notin input.columns
    /\ input.n >= 2
    /\ out_file.rows[2].id = <<"t", "e", "m", "p", "_", "i", "d", "_", "1">>

(* C9 as stated: the err_sentence of every output row is the input cell,   *)
(* unchanged, for every value the cell can hold, a missing cell included.  *)
C9_ErrSentenceUnchanged ==
    \A k \in 1..Len(err_sentences) : PyStr(err_sentences[k]) = input.err[k]

(* C10: calls are issued strictly in row order, one specialist call per    *)
(* row, a reviewer call only right after that row's successful specialist  *)
(* call and built from its stripped result, none for a later row before    *)
(* the current row's cor_sentence is appended, and never a retry.          *)
C10_SequentialNoRetry ==
    /\ Len(calls) <= 2 * idx
    /\ \A k \in 1..Len(calls) :
          /\ calls[k].row >= 1 /\ calls[k].row <= Len(cor_sentences) + 1
          /\ k > 1 => calls[k - 1].row <= calls[k].row
          /\ calls[k].stage = 1 =>
                calls[k].prompt = Format(specialist_prompt, err_sentences[calls[k].row])
          /\ calls[k].stage = 2 =>
                /\ k > 1
                /\ calls[k - 1].row = calls[k].row
                /\ calls[k - 1].stage = 1
                /\ calls[k - 1].ok
          /\ (calls[k].stage = 1 /\ calls[k].ok /\ calls[k].row <= Len(cor_sentences)) =>
                /\ k < Len(calls)
                /\ calls[k + 1].row = calls[k].row
                /\ calls[k + 1].stage = 2
    /\ \A r \in 1..Len(cor_sentences) :
          Cardinality(CallsOf(r, 1)) = 1 /\ Cardinality(CallsOf(r, 2)) <= 1
    /\ pc = "call1" => CallsOf(idx, 1) = {} /\ CallsOf(idx, 2) = {}
    /\ pc = "call2" => Cardinality(CallsOf(idx, 1)) = 1 /\ CallsOf(idx, 2) = {}
    /\ (idx >= 1 /\ outcome_2 # NotIssued) =>
          /\ outcome_1.kind = "ok"
          /\ \E s \in SubSeqs(outcome_1.content) :
                /\ IsStripOf(outcome_1.content, s)
                /\ calls[Len(calls)].prompt = Format(reviewer_prompt, s)

C10_Witness ==
    /\ pc = "done"
    /\ input.n >= 2
    /\ Cardinality(CallsOf(1, 1)) = 1 /\ Cardinality(CallsOf(1, 2)) = 1
    /\ Cardinality(CallsOf(2, 1)) = 1 /\ CallsOf(2, 2) = {}
    /\ Len(calls) = 3
====
